---- MODULE Spec2Model ----
(***************************************************************************)
(* A model of the event-scoring and retraining core of the AI firewall:    *)
(*   AdvancedMLEngine        (src/advanced_ml_engine.py)                   *)
(*   AdvancedThreatDetector  (src/ai_threat_detector.py)                   *)
(*   RealTimeProcessor       (src/real_time_processor.py)                  *)
(*   LiveMonitoringEngine    (src/scripts/live_monitoring_engine.py)       *)
(*                                                                         *)
(* Confidences and probabilities are floats in [0,1] in the source; here   *)
(* they are fixed-point integers in units of 1/ConfScale (per mille).      *)
(* The statistical models (sklearn estimators) are not modelled: what they *)
(* return for an event is an input drawn from the ranges the library       *)
(* guarantees.  A payload is abstracted to the number of rules of each     *)
(* pattern category that match it.                                         *)
(***************************************************************************)
EXTENDS Integers, Sequences, FiniteSets, Bags, TLC

VARIABLES
    request,    \* SpecScore: the call being made, [op, ...arguments]
    verdict,    \* the dict returned by the last predict_threat, or Null
    analysis,   \* the dict returned by the last analyze_threat, or Null
    detection,  \* the dict returned by the last detect_pattern_threats, or Null
    features,   \* the vectors returned by the extract_advanced_features calls
                \* made on the request, in call order
    \* AdvancedMLEngine of the processor process: which training cycle
    \* (generation) fitted each object; 0 is the unfitted object of __init__
    models,             \* self.models: member -> generation
    scalers,            \* self.scalers: name -> generation
    label_encoders,     \* self.label_encoders: name -> generation
    model_metrics,      \* self.model_metrics: [gen, accuracy], gen 0 is {}
    disk,               \* the files of models/: artifact -> generation
    threat_logs,        \* table threat_logs: bag of [created_at, status]
    ai_model_metrics,   \* table ai_model_metrics: the generation whose
                        \* accuracies each inserted row carries, in order
    processing_stats,   \* RealTimeProcessor.processing_stats
    now,                \* the clock, in seconds
    initialized,        \* RealTimeProcessor.initialize has run
    loopPc,             \* where run_real_time_monitoring is suspended
    scorePc,            \* where process_security_event is suspended
    trainerPc,          \* where the `train` command's process is suspended
    trainer_metrics,    \* model_metrics of the `train` command's engine
    nextGen,            \* the number the next training cycle gets
    lastCycle,          \* the processor's last train_models call: its outcome
                        \* and the engine objects in use when it started
    scored_with,        \* the generations of the objects the last predict_threat
                        \* computed with
    monitorCycles,      \* train_models calls made by continuous_learning
    trainedCycles,      \* those of them that returned True
    batch,              \* SpecBatch: the events given to process_batch_events
    tasks,              \* one process_security_event task per event of batch
    returned,           \* process_batch_events: [done, valid_results]
    \* LiveMonitoringEngine
    alert_queue,        \* self.alert_queue: the alerts put and not yet taken
    is_running,         \* self.is_running
    live_tasks,         \* start_monitoring: "none", or "created" once its
                        \* tasks exist
    put_count,          \* alerts put so far; an alert's id is its number
    dispatched          \* the alerts process_alerts took, each with the
                        \* handler it was given to, in order

engineVars == << models, scalers, label_encoders, model_metrics >>
dbVars == << threat_logs, ai_model_metrics >>
batchVars == << batch, tasks, returned >>
retrainVars ==
    << models, scalers, label_encoders, model_metrics, disk, threat_logs,
       ai_model_metrics, processing_stats, now, initialized, loopPc, scorePc,
       trainerPc, trainer_metrics, nextGen, lastCycle, scored_with, monitorCycles,
       trainedCycles, batch, tasks, returned >>

callVars == << detection, features >>
liveVars == << alert_queue, is_running, live_tasks, put_count, dispatched >>

vars == << request, verdict, analysis, callVars, retrainVars, liveVars >>

Null == [ null |-> TRUE ]

\* process_batch_events has not returned
NotReturned == [ done |-> FALSE, valid_results |-> << >> ]

----------------------------------------------------------------------------
(* Units and program constants *)

Percent == 100
ConfScale == 10 * Percent          \* 1.0 as a fixed-point confidence

VoteThreshold == 2
RiskThreshold == 70
CriticalCut == 90
HighCut == 70
MediumCut == 40
BlockCut == 70
DetectCut == 30
RuleConfidence == 200              \* 0.2 per matched rule
InternalDiscount == 20
InternalFloor == 10
OffHoursPenalty == 10
DefaultThreatScore == 50
BenignConfidence == 900            \* 0.9
ErrorAnomalyConfidence == 500      \* 0.5

(* Bounds of the model *)
MaxMatched == 6                    \* most rules of one category that match

Hours == 0 .. 23

Abs(x) == IF x < 0 THEN -x ELSE x
Min(a, b) == IF a < b THEN a ELSE b
Max(a, b) == IF a > b THEN a ELSE b

----------------------------------------------------------------------------
(* AdvancedThreatDetector: pattern matching and the rule-based risk score *)

\* _load_threat_patterns: the categories in declaration (dict insertion) order
Categories ==
    << "sql_injection", "xss", "command_injection", "path_traversal",
       "ldap_injection" >>

CategorySet == { Categories[i] : i \in 1 .. Len(Categories) }

\* mutant: the confidence is not capped at 1.0
detect_pattern_threats_uncapped(matched) ==
    [ threats |-> { c \in CategorySet : matched[c] > 0 },
      confidence_scores |->
          [ c \in { d \in CategorySet : matched[d] > 0 } |->
                matched[c] * RuleConfidence ] ]

\* detect_pattern_threats on a payload whose category c has matched[c]
\* matching rules: the categories reported, and their confidence_scores
detect_pattern_threats(matched) ==
    [ threats |-> { c \in CategorySet : matched[c] > 0 },
      confidence_scores |->
          [ c \in { d \in CategorySet : matched[d] > 0 } |->
                Min(matched[c] * RuleConfidence, ConfScale) ] ]

\* mutant: among equal confidences the last category wins
BestCategoryIndex_last(scores) ==
    CHOOSE i \in 1 .. Len(Categories) :
        /\ Categories[i] \in DOMAIN scores
        /\ \A j \in 1 .. Len(Categories) :
              Categories[j] \in DOMAIN scores =>
                  \/ scores[Categories[j]] < scores[Categories[i]]
                  \/ (scores[Categories[j]] = scores[Categories[i]] /\ i >= j)

\* max(confidence_scores.items(), key=lambda x: x[1]): Python's max returns the
\* first maximal item in iteration (declaration) order
BestCategoryIndex(scores) ==
    CHOOSE i \in 1 .. Len(Categories) :
        /\ Categories[i] \in DOMAIN scores
        /\ \A j \in 1 .. Len(Categories) :
              Categories[j] \in DOMAIN scores =>
                  \/ scores[Categories[j]] < scores[Categories[i]]
                  \/ (scores[Categories[j]] = scores[Categories[i]] /\ i <= j)

\* analyze_request_anomaly: raw.score is the IsolationForest's decision score
\* (signed, per mille); raw.raises when the model raises (an unfitted model
\* always does)
analyze_request_anomaly(raw) ==
    IF raw.raises
    THEN [ is_anomaly |-> FALSE, anomaly_score |-> 0,
           confidence |-> ErrorAnomalyConfidence ]
    ELSE LET normalized == Max(0, Min(ConfScale, raw.score + ConfScale \div 2))
             is_anomaly == raw.score < 0
         IN  [ is_anomaly |-> is_anomaly, anomaly_score |-> normalized,
               confidence |-> IF is_anomaly THEN ConfScale - normalized
                              ELSE normalized ]

classify_threat_type(matched, raw) ==
    LET pattern_results == detect_pattern_threats(matched)
    IN  IF pattern_results.threats # {}
        THEN LET best == Categories[BestCategoryIndex(pattern_results.confidence_scores)]
             IN  [ threat_type |-> best,
                   confidence |-> pattern_results.confidence_scores[best],
                   method |-> "pattern_matching" ]
        ELSE LET anomaly_result == analyze_request_anomaly(raw)
             IN  IF anomaly_result.is_anomaly
                 THEN [ threat_type |-> "anomaly",
                        confidence |-> anomaly_result.confidence,
                        method |-> "anomaly_detection" ]
                 ELSE [ threat_type |-> "benign",
                        confidence |-> BenignConfidence,
                        method |-> "classification" ]

threat_scores(threat_type) ==
    CASE threat_type = "sql_injection" -> 90
      [] threat_type = "xss" -> 85
      [] threat_type = "command_injection" -> 95
      [] threat_type = "path_traversal" -> 80
      [] threat_type = "ldap_injection" -> 75
      [] threat_type = "anomaly" -> 60
      [] threat_type = "benign" -> 10
      [] OTHER -> DefaultThreatScore

\* source_ip.startswith('192.168.') or source_ip.startswith('10.')
IsInternalIp(source_ip) == source_ip \in { "192.168.1.100", "10.0.0.50" }

\* 0 <= hour <= 6 or 22 <= hour <= 23
IsOffHours(hour) == (0 <= hour /\ hour <= 6) \/ (22 <= hour /\ hour <= 23)

calculate_risk_score(source_ip, hour, threat_analysis) ==
    LET base0 == threat_scores(threat_analysis.threat_type)
        base1 == (base0 * threat_analysis.confidence) \div ConfScale
        base2 == IF IsInternalIp(source_ip)
                 THEN Max(InternalFloor, base1 - InternalDiscount) ELSE base1
        base3 == IF IsOffHours(hour)
                 THEN Min(Percent, base2 + OffHoursPenalty) ELSE base2
    IN  Min(Percent, Max(0, base3))

\* analyze_threat's severity ladder
detector_severity(risk_score) ==
    IF risk_score >= CriticalCut THEN "critical"
    ELSE IF risk_score >= HighCut THEN "high"
    ELSE IF risk_score >= MediumCut THEN "medium"
    ELSE "low"

ErrorAnalysis ==
    [ threat_detected |-> FALSE, threat_type |-> "error", severity |-> "low",
      risk_score |-> 0, confidence |-> 0, should_block |-> FALSE,
      analysis_method |-> "unknown" ]

\* source_ip "None": the request carries a source_ip that is no string, so
\* calculate_risk_score raises at startswith and the except branch answers
analyze_threat(req) ==
    LET threat_analysis == classify_threat_type(req.matched, req.anomaly_raw)
        risk_score == calculate_risk_score(req.source_ip, req.hour, threat_analysis)
    IN  IF req.source_ip = "None" THEN ErrorAnalysis ELSE
        [ threat_detected |-> risk_score > DetectCut,
          threat_type |-> threat_analysis.threat_type,
          severity |-> detector_severity(risk_score),
          risk_score |-> risk_score,
          confidence |-> threat_analysis.confidence,
          should_block |-> (risk_score >= BlockCut
                            \/ threat_analysis.threat_type \in
                                 { "sql_injection", "xss", "command_injection" }),
          analysis_method |-> threat_analysis.method ]

----------------------------------------------------------------------------
(* AdvancedMLEngine.predict_threat: the ensemble decision *)

\* mutant: the threat classifier votes too when its label is not benign
threat_votes_with_classifier(predictions) ==
    (IF predictions.anomaly.is_anomaly THEN 1 ELSE 0)
    + (IF predictions.neural.is_threat THEN 1 ELSE 0)
    + (IF predictions.gradient.is_threat THEN 1 ELSE 0)
    + (IF predictions.classification.threat_type # "benign" THEN 1 ELSE 0)

\* sum([anomaly.is_anomaly, neural.is_threat, gradient.is_threat])
threat_votes_of(predictions) ==
    (IF predictions.anomaly.is_anomaly THEN 1 ELSE 0)
    + (IF predictions.neural.is_threat THEN 1 ELSE 0)
    + (IF predictions.gradient.is_threat THEN 1 ELSE 0)

\* mutant: the threat classifier's confidence is left out of the mean
ConfidenceSum_voters(predictions) ==
    predictions.anomaly.confidence + predictions.neural.confidence
    + predictions.gradient.confidence

\* np.mean of the four confidences, kept as the exact sum over 4 * ConfScale
ConfidenceSum(predictions) ==
    predictions.anomaly.confidence + predictions.classification.confidence
    + predictions.neural.confidence + predictions.gradient.confidence

\* mutant: the confidences summed, not averaged
risk_score_sum(predictions) ==
    (ConfidenceSum(predictions) * Percent) \div ConfScale

\* int(ensemble_confidence * 100): truncation of a non-negative value
risk_score_of(predictions) ==
    (ConfidenceSum(predictions) * Percent) \div (4 * ConfScale)

\* mutant: a risk score of exactly the threshold already counts as a threat
is_threat_inclusive(threat_votes, risk_score) ==
    threat_votes >= VoteThreshold \/ risk_score >= RiskThreshold

is_threat_of(threat_votes, risk_score) ==
    threat_votes >= VoteThreshold \/ risk_score > RiskThreshold

\* mutant: the boundary scores fall into the lower tier
engine_severity_exclusive(risk_score) ==
    IF risk_score > CriticalCut THEN "critical"
    ELSE IF risk_score > HighCut THEN "high"
    ELSE IF risk_score > MediumCut THEN "medium"
    ELSE "low"

\* predict_threat's severity ladder
engine_severity(risk_score) ==
    IF risk_score >= CriticalCut THEN "critical"
    ELSE IF risk_score >= HighCut THEN "high"
    ELSE IF risk_score >= MediumCut THEN "medium"
    ELSE "low"

\* a binary classifier: predict is the argmax of predict_proba (class 0 on a
\* tie), confidence is max(proba)
BinaryPrediction(proba1) ==
    [ is_threat |-> proba1 > ConfScale - proba1,
      confidence |-> Max(proba1, ConfScale - proba1),
      threat_probability |-> proba1 ]

\* mutant: a classification below 0.6 confidence is reported as benign
ModelPredictions_thresholded(det) ==
    [ anomaly |-> [ is_anomaly |-> det.anomaly_score < 0,
                    score |-> det.anomaly_score,
                    confidence |-> Abs(det.anomaly_score) ],
      classification |-> [ threat_type |-> IF 5 * det.class_conf < 3 * ConfScale
                                           THEN "benign" ELSE det.class_type,
                           confidence |-> det.class_conf ],
      neural |-> BinaryPrediction(det.neural_proba1),
      gradient |-> BinaryPrediction(det.gradient_proba1) ]

\* what the four models return for the scaled features of one event
ModelPredictions(det) ==
    [ anomaly |-> [ is_anomaly |-> det.anomaly_score < 0,
                    score |-> det.anomaly_score,
                    confidence |-> Abs(det.anomaly_score) ],
      classification |-> [ threat_type |-> det.class_type,
                           confidence |-> det.class_conf ],
      neural |-> BinaryPrediction(det.neural_proba1),
      gradient |-> BinaryPrediction(det.gradient_proba1) ]

\* the 'model_version' every computed verdict carries
ModelVersion == "advanced_ml_v2.0"

ErrorVerdict ==
    [ is_threat |-> FALSE, threat_type |-> "unknown", severity |-> "low",
      risk_score |-> 0, confidence |-> 0, error |-> TRUE ]

\* det.raises: some step inside the try block raised (an unfitted scaler or
\* model, a label the encoder does not know, ...)
predict_threat(det) ==
    IF det.raises THEN ErrorVerdict
    ELSE LET predictions == ModelPredictions(det)
             threat_votes == threat_votes_of(predictions)
             risk_score == risk_score_of(predictions)
         IN  [ is_threat |-> is_threat_of(threat_votes, risk_score),
               threat_type |-> predictions.classification.threat_type,
               severity |-> engine_severity(risk_score),
               risk_score |-> risk_score,
               confidence |-> ConfidenceSum(predictions),
               ensemble_votes |-> threat_votes,
               model_predictions |-> predictions,
               model_version |-> ModelVersion,
               error |-> FALSE ]

----------------------------------------------------------------------------
(* AdvancedMLEngine.extract_advanced_features.  Strings are the program's
   strings; a ratio (a float in the source) is kept in units of 1/ConfScale *)

\* pat in str
Contains(str, pat) ==
    \E i \in 1 .. Len(str) - Len(pat) + 1 : SubSeq(str, i, i + Len(pat) - 1) = pat

\* str.count(ch) for a single character
Count(str, ch) == Cardinality({ i \in 1 .. Len(str) : SubSeq(str, i, i) = ch })

UpperCase == "ABCDEFGHIJKLMNOPQRSTUVWXYZ"
LowerCase == "abcdefghijklmnopqrstuvwxyz"
Digits == "0123456789"

\* the lower-case letter of every upper-case letter
ToLower ==
    [ ch \in { SubSeq(UpperCase, k, k) : k \in 1 .. Len(UpperCase) } |->
        LET i == CHOOSE k \in 1 .. Len(UpperCase) : SubSeq(UpperCase, k, k) = ch
        IN  SubSeq(LowerCase, i, i) ]

LowerChar(ch) == IF ch \in DOMAIN ToLower THEN ToLower[ch] ELSE ch

\* str.lower()
RECURSIVE Lower(_)
Lower(str) ==
    IF str = "" THEN ""
    ELSE LowerChar(SubSeq(str, 1, 1)) \o Lower(SubSeq(str, 2, Len(str)))

\* ch.isalnum()
IsAlnum(ch) ==
    Contains(UpperCase, ch) \/ Contains(LowerCase, ch) \/ Contains(Digits, ch)

\* str.split('.')
RECURSIVE SplitDots(_)
SplitDots(str) ==
    IF ~Contains(str, ".") THEN << str >>
    ELSE LET i == CHOOSE k \in 1 .. Len(str) :
                      /\ SubSeq(str, k, k) = "."
                      /\ \A j \in 1 .. k - 1 : SubSeq(str, j, j) # "."
         IN  << SubSeq(str, 1, i - 1) >> \o SplitDots(SubSeq(str, i + 1, Len(str)))

\* int(str) succeeds on a non-empty string of digits
IsInt(str) ==
    /\ str # ""
    /\ \A i \in 1 .. Len(str) : Contains(Digits, SubSeq(str, i, i))

DigitValue(ch) == CHOOSE d \in 0 .. 9 : SubSeq(Digits, d + 1, d + 1) = ch

RECURSIVE IntValue(_)
IntValue(str) ==
    IF str = "" THEN 0
    ELSE 10 * IntValue(SubSeq(str, 1, Len(str) - 1))
         + DigitValue(SubSeq(str, Len(str), Len(str)))

special_chars ==
    << "%", ";", "|", "&", "<", ">", "'", "\"", "(", ")", "{", "}", "[", "]" >>
sql_keywords ==
    << "SELECT", "UNION", "INSERT", "UPDATE", "DELETE", "DROP", "CREATE", "ALTER" >>
xss_patterns ==
    << "<script", "javascript:", "onerror=", "onload=", "onclick=", "eval(" >>
\* the list also holds the backquote, which a TLA+ string cannot hold; no
\* payload of the model contains one, so that pattern never counts
cmd_patterns ==
    << "|", "&&", "||", ";", "$", "bash", "sh", "cmd", "powershell" >>
path_patterns ==
    << "../", "..\\", "%2e%2e", "etc/passwd", "windows/system32" >>

\* mutant: the list holds an empty pattern, which every string contains
encoding_patterns_blank == << "%", "+", "\\x", "\\u", "base64", "" >>

encoding_patterns == << "%", "+", "\\x", "\\u", "base64" >>

suspicious_agents ==
    << "bot", "crawler", "scanner", "sqlmap", "nikto", "nmap", "curl", "wget" >>

\* pattern.lower() for every pattern of a list
Lowered(patterns) == [ i \in 1 .. Len(patterns) |-> Lower(patterns[i]) ]

sql_keywords_lower == Lowered(sql_keywords)
xss_patterns_lower == Lowered(xss_patterns)
path_patterns_lower == Lowered(path_patterns)
encoding_patterns_lower == Lowered(encoding_patterns)
suspicious_agents_lower == Lowered(suspicious_agents)

\* sum(1 for pattern in patterns if pattern in lowered_text), for patterns
\* and a text that are lowered already
KeywordScore(lowered_patterns, lowered_text) ==
    Cardinality({ i \in 1 .. Len(lowered_patterns) :
                    Contains(lowered_text, lowered_patterns[i]) })

\* the 14 character-frequency features
CharRatios(payload) ==
    IF payload # ""
    THEN LET total_chars == Len(payload)
         IN  [ i \in 1 .. Len(special_chars) |->
                 IF total_chars > 0
                 THEN (Count(payload, special_chars[i]) * ConfScale) \div total_chars
                 ELSE 0 ]
    ELSE [ i \in 1 .. Len(special_chars) |-> 0 ]

\* the IP features: << is_private, ip_entropy >>
IpFeatures(source_ip) ==
    LET ip_parts == SplitDots(source_ip)
    IN  IF Len(ip_parts) = 4
        THEN IF IsInt(ip_parts[1])
             THEN LET first_octet == IntValue(ip_parts[1])
                  IN  << IF first_octet \in { 10, 172, 192, 127 } THEN 1 ELSE 0,
                         (Cardinality({ ip_parts[i] : i \in 1 .. 4 }) * ConfScale)
                             \div 4 >>
             ELSE << 0, 0 >>
        ELSE << 0, 0 >>

complexity_score(payload) ==
    (Count(payload, "&") + 1) + (Count(payload, "=") + 1)
    + Count(payload, "(") + Count(payload, "[")
    + Cardinality({ i \in 1 .. Len(payload) :
                      /\ ~IsAlnum(SubSeq(payload, i, i))
                      /\ SubSeq(payload, i, i) # " " })

\* extract_advanced_features(data) called when datetime.now().hour is
\* current_hour
extract_advanced_features(data, current_hour) ==
    LET payload_lower == Lower(data.payload)
        user_agent_lower == Lower(data.user_agent)
        ip_features == IpFeatures(data.source_ip)
    IN
    [ len_payload |-> Len(data.payload),
      len_user_agent |-> Len(data.user_agent),
      len_path |-> Len(data.request_path),
      ip_parts |-> IF Contains(data.source_ip, ".")
                   THEN Len(SplitDots(data.source_ip)) ELSE 0,
      char_ratios |-> CharRatios(data.payload),
      sql_score |-> KeywordScore(sql_keywords_lower, payload_lower),
      xss_score |-> KeywordScore(xss_patterns_lower, payload_lower),
      \* cmd_patterns are used as written, not lowered
      cmd_score |-> KeywordScore(cmd_patterns, payload_lower),
      path_score |-> KeywordScore(path_patterns_lower, payload_lower),
      encoding_score |-> KeywordScore(encoding_patterns_lower, payload_lower),
      ua_score |-> KeywordScore(suspicious_agents_lower, user_agent_lower),
      is_private |-> ip_features[1],
      ip_entropy |-> ip_features[2],
      current_hour |-> current_hour,
      night |-> IF 0 <= current_hour /\ current_hour <= 6 THEN 1 ELSE 0,
      peak |-> IF current_hour \in { 12, 13, 17, 18 } THEN 1 ELSE 0,
      business |-> IF current_hour \in 9 .. 16 THEN 1 ELSE 0,
      complexity_score |-> complexity_score(data.payload) ]

----------------------------------------------------------------------------
(* AdvancedThreatDetector._load_threat_patterns, as re.search(pattern,
   payload, re.IGNORECASE) matches them.  A rule is the sequence of its
   literals; each literal carries what the pattern allows between it and the
   literal before (gap), its alternatives, and its word boundaries *)

\* \w
IsWord(ch) == ch # "" /\ (IsAlnum(ch) \/ ch = "_")
\* \s
IsSpace(ch) == ch # "" /\ Contains(" \t\n", ch)

\* the character at position i, "" outside the string
CharAt(text, i) == IF i >= 1 /\ i <= Len(text) THEN SubSeq(text, i, i) ELSE ""

\* \b between positions i - 1 and i
WordBoundary(text, i) == IsWord(CharAt(text, i - 1)) # IsWord(CharAt(text, i))

Search == [ kind |-> "search", ch |-> "" ]       \* the start of re.search
AnyChars == [ kind |-> "except", ch |-> "\n" ]        \* .*
Except(ch) == [ kind |-> "except", ch |-> ch ]   \* [^c]*
Spaces == [ kind |-> "space", ch |-> "" ]        \* \s*
Spaces1 == [ kind |-> "space1", ch |-> "" ]      \* \s+
WordSpaces == [ kind |-> "word", ch |-> "" ]     \* \w+\s*
Adjacent == [ kind |-> "none", ch |-> "" ]

\* the characters text[pos .. i - 1] are what the gap allows
GapOk(gap, text, pos, i) ==
    CASE gap.kind = "search" -> TRUE
      [] gap.kind = "except" ->
            \A j \in pos .. i - 1 : CharAt(text, j) # gap.ch
      [] gap.kind = "space" ->
            \A j \in pos .. i - 1 : IsSpace(CharAt(text, j))
      [] gap.kind = "space1" ->
            i > pos /\ \A j \in pos .. i - 1 : IsSpace(CharAt(text, j))
      [] gap.kind = "word" ->
            \E j \in pos + 1 .. i :
                /\ \A q \in pos .. j - 1 : IsWord(CharAt(text, q))
                /\ \A q \in j .. i - 1 : IsSpace(CharAt(text, q))
      [] gap.kind = "none" -> i = pos

\* a literal: b is "b" for \b before it, "B" for \b on both sides, "" for none;
\* atEnd for a literal the pattern anchors at the end of the payload ($: the
\* end, or just before a final newline)
El(gap, alts, b) == [ gap |-> gap, alts |-> alts, b |-> b, atEnd |-> FALSE ]
AtEnd(gap, alts) == [ gap |-> gap, alts |-> alts, b |-> "", atEnd |-> TRUE ]

\* the rest of the rule, from its literal k on, matches lowered_text from pos
RECURSIVE MatchFrom(_, _, _, _)
MatchFrom(rule, k, lowered_text, pos) ==
    IF k > Len(rule) THEN TRUE
    ELSE \E i \in pos .. Len(lowered_text), alt \in rule[k].alts :
            LET lit == Lower(alt)
                last == i + Len(lit) - 1
            IN  /\ last <= Len(lowered_text)
                /\ SubSeq(lowered_text, i, last) = lit
                /\ GapOk(rule[k].gap, lowered_text, pos, i)
                /\ rule[k].b \in { "b", "B" } => WordBoundary(lowered_text, i)
                /\ rule[k].b = "B" => WordBoundary(lowered_text, last + 1)
                /\ rule[k].atEnd =>
                      \/ last = Len(lowered_text)
                      \/ /\ last = Len(lowered_text) - 1
                         /\ CharAt(lowered_text, last + 1) = "\n"
                /\ MatchFrom(rule, k + 1, lowered_text, last + 1)

\* re.search(pattern, payload, re.IGNORECASE)
RuleMatches(rule, payload) == MatchFrom(rule, 1, Lower(payload), 1)

ShellCommands == { "ls", "cat", "pwd", "whoami", "id", "uname" }

\* the rules of every category, in declaration order.  The command_injection
\* rule of two backquotes is left out: a TLA+ string cannot hold a backquote,
\* so no payload of the model matches it
threat_patterns ==
    [ sql_injection |->
        << << El(Search, { "UNION" }, "B"), El(AnyChars, { "SELECT" }, "B") >>,
           << El(Search, { "OR" }, "B"), El(AnyChars, { "=" }, "") >>,
           << El(Search, { "DROP" }, "B"), El(AnyChars, { "TABLE" }, "B") >>,
           << El(Search, { "INSERT" }, "B"), El(AnyChars, { "INTO" }, "B") >>,
           << El(Search, { "'" }, ""), El(AnyChars, { "OR" }, ""), El(AnyChars, { "'" }, ""),
              El(AnyChars, { "=" }, ""), El(AnyChars, { "'" }, "") >>,
           << El(Search, { "EXEC" }, "B"), El(AnyChars, { "XP_" }, "b") >>,
           << El(Search, { "SELECT" }, "B"), El(AnyChars, { "FROM" }, "B"),
              El(AnyChars, { "WHERE" }, "B"), El(AnyChars, { "=" }, "") >>,
           << El(Search, { "DELETE" }, "B"), El(AnyChars, { "FROM" }, "B") >>,
           << El(Search, { "UPDATE" }, "B"), El(AnyChars, { "SET" }, "B") >>,
           << El(Search, { "ALTER" }, "B"), El(AnyChars, { "TABLE" }, "B") >> >>,
      xss |->
        << << El(Search, { "<script" }, ""), El(Except(">"), { ">" }, ""),
              El(AnyChars, { "</script>" }, "") >>,
           << El(Search, { "javascript:" }, "") >>,
           << El(Search, { "on" }, ""), El(WordSpaces, { "=" }, "") >>,
           << El(Search, { "<iframe" }, ""), El(Except(">"), { ">" }, "") >>,
           << El(Search, { "eval" }, ""), El(Spaces, { "(" }, "") >>,
           << El(Search, { "<object" }, ""), El(Except(">"), { ">" }, "") >>,
           << El(Search, { "<embed" }, ""), El(Except(">"), { ">" }, "") >>,
           << El(Search, { "<link" }, ""), El(Except(">"), { ">" }, "") >>,
           << El(Search, { "<meta" }, ""), El(Except(">"), { ">" }, "") >>,
           << El(Search, { "<style" }, ""), El(Except(">"), { ">" }, ""),
              El(AnyChars, { "</style>" }, "") >> >>,
      command_injection |->
        << << El(Search, { ";" }, ""), El(Spaces, ShellCommands, "") >>,
           << El(Search, { "|" }, ""), El(Spaces, ShellCommands, "") >>,
           << El(Search, { "&&" }, ""), El(Spaces, ShellCommands, "") >>,
           << AtEnd(Search, { "$" }) >>,
           << El(Search, { ">" }, ""), El(Spaces, { "/dev/null" }, "") >>,
           << El(Search, { "2>&1" }, "") >>,
           << El(Search, { "/bin/" }, ""),
              El(Adjacent, { "sh", "bash", "csh", "tcsh", "zsh" }, "") >>,
           << El(Search, { "wget", "curl" }, ""), El(Spaces1, { "http" }, "") >> >>,
      path_traversal |->
        << << El(Search, { "../.." }, "") >>,
           << El(Search, { "..\\..\\" }, "") >>,
           << El(Search, { "%2e%2e%2f" }, "") >>,
           << El(Search, { "%2e%2e\\" }, "") >>,
           << El(Search, { "..%2f" }, "") >>,
           << El(Search, { "..%5c" }, "") >>,
           << El(Search, { "/etc/passwd" }, "") >>,
           << El(Search, { "/etc/shadow" }, "") >>,
           << El(Search, { "C:\\Windows\\System32" }, "") >> >>,
      ldap_injection |->
        << << El(Search, { "*)(|" }, "") >>,
           << El(Search, { "*)(&" }, "") >>,
           << El(Search, { "(|(" }, "") >>,
           << El(Search, { "(&(" }, "") >>,
           << El(Search, { ")(|" }, "") >>,
           << El(Search, { ")(&" }, "") >> >> ]

\* detect_pattern_threats: the number of rules of every category that match
MatchedRules(payload) ==
    [ c \in CategorySet |->
        Cardinality({ i \in 1 .. Len(threat_patterns[c]) :
                        RuleMatches(threat_patterns[c][i], payload) }) ]

\* main: the payload of its first test request
SqlTestPayload == "' OR '1'='1' --"

SqlTestMatched == MatchedRules(SqlTestPayload)

----------------------------------------------------------------------------
(* The inputs of the scoring functions *)

\* IsolationForest.decision_function lies in [-1, 1]
AnomalyScores == { -1000, -600, -1, 0, 400, 1000 }
\* max of a probability distribution
ClassConfidences == { 560, 600, 760, 960, 1000 }
\* predict_proba[1] of a binary classifier
Probabilities == { 0, 300, 500, 501, 1000 }
ThreatTypes == { "benign", "sql_injection", "xss" }
SourceIps == { "192.168.1.100", "10.0.0.50", "172.16.0.10", "None" }

NoMatch == [ c \in CategorySet |-> 0 ]
OneRule(c, n) == [ d \in CategorySet |-> IF d = c THEN n ELSE 0 ]

\* payloads with at most two matching categories
Payloads ==
    { m \in [ CategorySet -> 0 .. MaxMatched ] :
        Cardinality({ c \in CategorySet : m[c] > 0 }) <= 2 }

\* the payloads scored by the engine: none, one, three and five rules matched
EnginePayloads ==
    { NoMatch, OneRule("sql_injection", 1), OneRule("sql_injection", 3),
      OneRule("xss", 5) }

DetectorOutputs ==
    [ anomaly_score : AnomalyScores, class_type : ThreatTypes,
      class_conf : ClassConfidences, neural_proba1 : Probabilities,
      gradient_proba1 : Probabilities, raises : BOOLEAN ]

PredictRequests ==
    { [ op |-> "predict_threat", matched |-> m, det |-> d ] :
        m \in EnginePayloads, d \in DetectorOutputs }

AnomalyRaises == [ raises |-> TRUE, score |-> 0 ]
AnomalyOutcomes ==
    { AnomalyRaises } \cup
    { [ raises |-> FALSE, score |-> a ] : a \in { -1000, -500, -100, 0, 300 } }

\* the anomaly model is consulted only when no pattern matched
AnalyzeRequests ==
    { [ op |-> "analyze_threat", matched |-> m, source_ip |-> ip, hour |-> h,
        anomaly_raw |-> AnomalyRaises ] :
        m \in Payloads \ { NoMatch }, ip \in SourceIps, h \in Hours }
    \cup
    { [ op |-> "analyze_threat", matched |-> NoMatch, source_ip |-> ip,
        hour |-> h, anomaly_raw |-> a ] :
        ip \in SourceIps, h \in Hours, a \in AnomalyOutcomes }

\* detect_pattern_threats on payloads with any number of matching categories,
\* each with no, one, three, four, five or more matching rules
DetectRequests ==
    { [ op |-> "detect_pattern_threats", matched |-> m ] :
        m \in [ CategorySet -> { 0, 1, 3, 4, 5, MaxMatched } ] }

MaxTokens == 2                     \* most pieces a payload is made of

\* the pieces payloads are made of: a letter, special characters, and one
\* keyword of the SQL, XSS and path lists
PayloadTokens == { "a", "%", ";", "SELECT", "<script", "../" }

RECURSIVE PayloadStrings(_)
PayloadStrings(n) ==
    IF n = 0 THEN { "" }
    ELSE PayloadStrings(n - 1)
         \cup { p \o t : p \in PayloadStrings(n - 1), t \in PayloadTokens }

UserAgents == { "", "Mozilla/5.0", "sqlmap/1.0" }
EventIps == { "", "192.168.1.100", "8.8.8.8", "a.b.c.d" }

\* datetime.now().hour at a call: a night hour, a business hour, a peak hour
ClockHours == { 6, 9, 17 }

ExtractRequests ==
    { [ op |-> "extract_advanced_features",
        data |-> [ payload |-> p, user_agent |-> ua,
                   request_path |-> "/api/login", source_ip |-> ip ] ] :
        p \in PayloadStrings(MaxTokens), ua \in UserAgents, ip \in EventIps }

----------------------------------------------------------------------------
(* The engine's objects, the model directory and the tables *)

StoreRiskCut == 50
RetrainThreshold == 100
LearnEvery == 1800
SleepInterval == 60
WindowSeconds == 3600                    \* INTERVAL '1 hour'

(* Bounds of the model *)
MaxTime == 120          \* the clock stops here
MaxCycles == 2          \* training cycles started, over both processes
MaxEvents == 2          \* events scored by process_security_event
BurstSize == 120        \* rows of one burst

\* initialize_models: the estimators in dict insertion order
Members ==
    << "anomaly_detector", "threat_classifier", "neural_detector",
       "gradient_detector" >>
MemberSet == { Members[i] : i \in 1 .. Len(Members) }
ScalerNames == { "standard", "minmax" }
EncoderNames == { "threat_type", "severity" }

\* the members evaluate_models computes an accuracy for
ScoredMembers == { "threat_classifier", "neural_detector", "gradient_detector" }

\* validation accuracies (percent) a cycle can measure
AccuracyVectors ==
    { [ m \in ScoredMembers |-> 90 ],
      [ m \in ScoredMembers |-> IF m = "neural_detector" THEN 60 ELSE 90 ] }

NoMetrics == [ gen |-> 0, accuracy |-> [ m \in ScoredMembers |-> 0 ] ]

\* save_models: the files in the order they are written
Artifacts ==
    << "anomaly_detector.pkl", "threat_classifier.pkl", "neural_detector.pkl",
       "gradient_detector.pkl", "scaler_standard.pkl", "scaler_minmax.pkl",
       "encoder_threat_type.pkl", "encoder_severity.pkl", "metrics.json" >>

\* where a run of save_models can end: before the first file, after the
\* models, or with every file written
SaveStops == { 0, Len(Members), Len(Artifacts) }

\* the generation of the in-memory object save_models dumps into a file
ArtifactValue(file, ms, sc, le, mm) ==
    CASE file = "anomaly_detector.pkl" -> ms["anomaly_detector"]
      [] file = "threat_classifier.pkl" -> ms["threat_classifier"]
      [] file = "neural_detector.pkl" -> ms["neural_detector"]
      [] file = "gradient_detector.pkl" -> ms["gradient_detector"]
      [] file = "scaler_standard.pkl" -> sc["standard"]
      [] file = "scaler_minmax.pkl" -> sc["minmax"]
      [] file = "encoder_threat_type.pkl" -> le["threat_type"]
      [] file = "encoder_severity.pkl" -> le["severity"]
      [] file = "metrics.json" -> mm

\* save_models on directory d when the write of file number written + 1
\* raises (written = Len(Artifacts): every file is written); the except
\* branch only prints
save_models(d, written, ms, sc, le, mm) ==
    LET files == { Artifacts[i] : i \in 1 .. written }
    IN  [ f \in DOMAIN d \cup files |->
            IF f \in files THEN ArtifactValue(f, ms, sc, le, mm) ELSE d[f] ]

\* load_models: every object whose file exists is replaced by the file's
LoadedModels(d, ms) ==
    [ m \in MemberSet |->
        IF (m \o ".pkl") \in DOMAIN d THEN d[m \o ".pkl"] ELSE ms[m] ]
LoadedScalers(d, sc) ==
    [ n \in ScalerNames |->
        IF ("scaler_" \o n \o ".pkl") \in DOMAIN d
        THEN d["scaler_" \o n \o ".pkl"] ELSE sc[n] ]
LoadedEncoders(d, le) ==
    [ n \in EncoderNames |->
        IF ("encoder_" \o n \o ".pkl") \in DOMAIN d
        THEN d["encoder_" \o n \o ".pkl"] ELSE le[n] ]
LoadedMetrics(d, mm) ==
    IF "metrics.json" \in DOMAIN d THEN d["metrics.json"] ELSE mm

\* AdvancedMLEngine.__init__ / initialize_models
UnfittedModels == [ m \in MemberSet |-> 0 ]
UnfittedScalers == [ n \in ScalerNames |-> 0 ]
UnfittedEncoders == [ n \in EncoderNames |-> 0 ]

\* a models/ directory left complete by an earlier run, as generation 1
SavedGeneration(acc) ==
    save_models(<< >>, Len(Artifacts), [ m \in MemberSet |-> 1 ],
                [ n \in ScalerNames |-> IF n = "standard" THEN 1 ELSE 0 ],
                [ n \in EncoderNames |-> 1 ], [ gen |-> 1, accuracy |-> acc ])

----------------------------------------------------------------------------
(* train_models after fetch_training_data has returned rows: one synchronous
   block, which an exception leaves at the step that raised *)

TrainSteps ==
    << "scaler", "encoder_threat_type", "encoder_severity", "split",
       "anomaly_detector", "threat_classifier", "neural_detector",
       "gradient_detector", "evaluate", "save" >>

StepIndex(step) == CHOOSE i \in 1 .. Len(TrainSteps) : TrainSteps[i] = step

\* the step has completed when done steps have
Completed(step, done) == StepIndex(step) <= done

\* the engine's objects after the first done steps of cycle g: fit and
\* fit_transform refit the objects of self.models, self.scalers and
\* self.label_encoders in place
TrainedModels(ms, g, done) ==
    [ m \in MemberSet |-> IF Completed(m, done) THEN g ELSE ms[m] ]
TrainedScalers(sc, g, done) ==
    [ n \in ScalerNames |->
        IF n = "standard" /\ Completed("scaler", done) THEN g ELSE sc[n] ]
TrainedEncoders(le, g, done) ==
    [ n \in EncoderNames |->
        IF Completed("encoder_" \o n, done) THEN g ELSE le[n] ]
\* evaluate_models stores the accuracies it measured, whatever they are
EvaluatedMetrics(mm, g, acc, done) ==
    IF Completed("evaluate", done) THEN [ gen |-> g, accuracy |-> acc ] ELSE mm

----------------------------------------------------------------------------
(* Spec: a RealTimeProcessor whose monitoring loop and event scoring share one
   event loop, and the `train` command run as a process of its own.  A
   coroutine runs alone from one await to the next; each action is one such
   stretch. *)

Rows(created_at, status, n) ==
    [ r \in { [ created_at |-> created_at, status |-> status ] } |-> n ]

\* SELECT COUNT(*) FROM threat_logs WHERE created_at >= NOW() - INTERVAL '1 hour'
RowsInWindow ==
    LET recent == { r \in BagToSet(threat_logs) :
                      r.created_at >= now - WindowSeconds }
    IN  BagCardinality([ r \in recent |-> threat_logs[r] ])

NoCycle ==
    [ outcome |-> "none", models |-> UnfittedModels, scalers |-> UnfittedScalers,
      label_encoders |-> UnfittedEncoders, model_metrics |-> NoMetrics,
      measured |-> NoMetrics.accuracy ]

NotScored == { }

\* LiveMonitoringEngine.__init__
LiveEngineNew ==
    /\ alert_queue = << >>
    /\ is_running = FALSE
    /\ live_tasks = "none"
    /\ put_count = 0
    /\ dispatched = << >>

\* the state RealTimeProcessor.__init__ leaves, with nothing on disk
InitRetrainIdle ==
    /\ LiveEngineNew
    /\ models = UnfittedModels
    /\ scalers = UnfittedScalers
    /\ label_encoders = UnfittedEncoders
    /\ model_metrics = NoMetrics
    /\ disk = << >>
    /\ threat_logs = EmptyBag
    /\ ai_model_metrics = << >>
    /\ processing_stats = [ processed_count |-> 0, threats_detected |-> 0 ]
    /\ now = 0
    /\ initialized = FALSE
    /\ loopPc = "metrics"
    /\ scorePc = "idle"
    /\ trainerPc = "idle"
    /\ trainer_metrics = NoMetrics
    /\ nextGen = 2
    /\ lastCycle = NoCycle
    /\ scored_with = NotScored
    /\ monitorCycles = 0
    /\ trainedCycles = 0
    /\ batch = << >>
    /\ tasks = << >>
    /\ returned = NotReturned

\* models/ is empty or holds the generation an earlier run saved; threat_logs
\* holds the labeled rows that arrived before the loop started, a burst or
\* exactly the threshold, late enough to be inside the window for the first two
\* checks and outside it from the third on; no further rows arrive but those
\* store_threat_analysis inserts
Init ==
    /\ request = Null
    /\ verdict = Null
    /\ analysis = Null
    /\ detection = Null
    /\ features = << >>
    /\ models = UnfittedModels
    /\ scalers = UnfittedScalers
    /\ label_encoders = UnfittedEncoders
    /\ model_metrics = NoMetrics
    /\ disk \in { << >>, SavedGeneration([ m \in ScoredMembers |-> 90 ]) }
    /\ threat_logs \in
          { Rows(SleepInterval - WindowSeconds, "blocked", n) :
              n \in { RetrainThreshold, BurstSize } }
    /\ ai_model_metrics = << >>
    /\ processing_stats = [ processed_count |-> 0, threats_detected |-> 0 ]
    /\ now = 0
    /\ initialized = FALSE
    /\ loopPc = "metrics"
    /\ scorePc = "idle"
    /\ trainerPc = "idle"
    /\ trainer_metrics = NoMetrics
    /\ nextGen = 2
    /\ lastCycle = NoCycle
    /\ scored_with = NotScored
    /\ monitorCycles = 0
    /\ trainedCycles = 0
    /\ batch = << >>
    /\ tasks = << >>
    /\ returned = NotReturned
    /\ LiveEngineNew

\* RealTimeProcessor.initialize: load_models replaces what has a file
Initialize ==
    /\ ~initialized
    /\ initialized' = TRUE
    /\ models' = LoadedModels(disk, models)
    /\ scalers' = LoadedScalers(disk, scalers)
    /\ label_encoders' = LoadedEncoders(disk, label_encoders)
    /\ model_metrics' = LoadedMetrics(disk, model_metrics)
    /\ UNCHANGED << liveVars, callVars, request, verdict, analysis, disk, dbVars, processing_stats,
                    now, loopPc, scorePc, trainerPc, trainer_metrics, nextGen,
                    lastCycle, scored_with, monitorCycles, trainedCycles,
                    batchVars >>

\* run_real_time_monitoring: monitor_system_metrics has returned; continuous
\* learning is entered when processed_count % 1800 == 0
MonitorMetrics ==
    /\ initialized
    /\ loopPc = "metrics"
    /\ loopPc' = IF processing_stats.processed_count % LearnEvery = 0
                 THEN "count" ELSE "sleep"
    /\ UNCHANGED << liveVars, callVars, request, verdict, analysis, engineVars, disk, dbVars,
                    processing_stats, now, initialized, scorePc, trainerPc,
                    trainer_metrics, nextGen, lastCycle, scored_with,
                    monitorCycles, trainedCycles,
                    batchVars >>

\* continuous_learning: the count query has returned (or raised); with more
\* than 100 rows in the last hour train_models is called and suspends in
\* fetch_training_data
CountNewSamples ==
    /\ loopPc = "count"
    /\ \E query_ok \in BOOLEAN :
          IF query_ok /\ RowsInWindow > RetrainThreshold
          THEN /\ nextGen <= MaxCycles + 1
               /\ loopPc' = "fetch"
               /\ monitorCycles' = monitorCycles + 1
               /\ lastCycle' = [ outcome |-> "running", models |-> models,
                                 scalers |-> scalers,
                                 label_encoders |-> label_encoders,
                                 model_metrics |-> model_metrics,
                                 measured |-> NoMetrics.accuracy ]
          ELSE /\ loopPc' = "sleep"
               /\ UNCHANGED << monitorCycles, lastCycle >>
    /\ UNCHANGED << liveVars, callVars, request, verdict, analysis, engineVars, disk, dbVars,
                    processing_stats, now, initialized, scorePc, trainerPc,
                    trainer_metrics, nextGen, scored_with, trainedCycles,
                    batchVars >>

\* train_models: fetch_training_data returned no rows (it returns an empty
\* frame when the query raises): return False, and continuous_learning goes on
\* to update_model_metrics
TrainNoData ==
    /\ loopPc = "fetch"
    /\ loopPc' = "publish"
    /\ lastCycle' = [ lastCycle EXCEPT !.outcome = "no_data" ]
    /\ UNCHANGED << liveVars, callVars, request, verdict, analysis, engineVars, disk, dbVars,
                    processing_stats, now, initialized, scorePc, trainerPc,
                    trainer_metrics, nextGen, scored_with, monitorCycles, trainedCycles,
                    batchVars >>

\* train_models: a step raises after `done` steps; the exception leaves
\* train_models and is caught and printed by continuous_learning
TrainFails ==
    /\ loopPc = "fetch"
    /\ \E done \in 0 .. Len(TrainSteps) - 2 :
          /\ models' = TrainedModels(models, nextGen, done)
          /\ scalers' = TrainedScalers(scalers, nextGen, done)
          /\ label_encoders' = TrainedEncoders(label_encoders, nextGen, done)
    /\ nextGen' = nextGen + 1
    /\ loopPc' = "sleep"
    /\ lastCycle' = [ lastCycle EXCEPT !.outcome = "failed" ]
    /\ UNCHANGED << liveVars, callVars, request, verdict, analysis, model_metrics, disk, dbVars,
                    processing_stats, now, initialized, scorePc, trainerPc,
                    trainer_metrics, scored_with, monitorCycles, trainedCycles,
                    batchVars >>

\* train_models: every fit succeeds, evaluate_models records the accuracies,
\* save_models writes `written` files (all of them unless a write raises) and
\* train_models returns True
TrainSucceeds ==
    /\ loopPc = "fetch"
    /\ \E acc \in AccuracyVectors, written \in SaveStops :
          LET done == Len(TrainSteps)
              ms == TrainedModels(models, nextGen, done)
              sc == TrainedScalers(scalers, nextGen, done)
              le == TrainedEncoders(label_encoders, nextGen, done)
              mm == EvaluatedMetrics(model_metrics, nextGen, acc, done)
          IN  /\ models' = ms
              /\ scalers' = sc
              /\ label_encoders' = le
              /\ model_metrics' = mm
              /\ disk' = save_models(disk, written, ms, sc, le, mm)
              /\ lastCycle' =
                    [ lastCycle EXCEPT
                        !.outcome = IF written = Len(Artifacts)
                                    THEN "ok" ELSE "save_failed",
                        !.measured = acc ]
    /\ nextGen' = nextGen + 1
    /\ loopPc' = "publish"
    /\ trainedCycles' = trainedCycles + 1
    /\ UNCHANGED << liveVars, callVars, request, verdict, analysis, dbVars, processing_stats, now,
                    initialized, scorePc, trainerPc, trainer_metrics,
                    scored_with, monitorCycles, batchVars >>

\* update_model_metrics: the insert into ai_model_metrics is made, or raises
\* and is printed
UpdateModelMetrics ==
    /\ loopPc = "publish"
    /\ \E insert_ok \in BOOLEAN :
          ai_model_metrics' =
              IF insert_ok THEN Append(ai_model_metrics, model_metrics.gen)
              ELSE ai_model_metrics
    /\ loopPc' = "sleep"
    /\ UNCHANGED << liveVars, callVars, request, verdict, analysis, engineVars, disk, threat_logs,
                    processing_stats, now, initialized, scorePc, trainerPc,
                    trainer_metrics, nextGen, lastCycle, scored_with,
                    monitorCycles, trainedCycles,
                    batchVars >>

\* await asyncio.sleep(60)
Sleep ==
    /\ loopPc = "sleep"
    /\ now + SleepInterval <= MaxTime
    /\ now' = now + SleepInterval
    /\ loopPc' = "metrics"
    /\ UNCHANGED << liveVars, callVars, request, verdict, analysis, engineVars, disk, dbVars,
                    processing_stats, initialized, scorePc, trainerPc,
                    trainer_metrics, nextGen, lastCycle, scored_with,
                    monitorCycles, trainedCycles,
                    batchVars >>

\* what the models return for the events scored under Spec: a threat every
\* model votes for, a benign event scored above the store cut, a benign event
\* scored below it, and an event whose scoring raises
LoopDetectorOutputs ==
    { [ anomaly_score |-> -600, class_type |-> "sql_injection",
        class_conf |-> 960, neural_proba1 |-> 1000, gradient_proba1 |-> 1000,
        raises |-> FALSE ],
      [ anomaly_score |-> 400, class_type |-> "benign", class_conf |-> 600,
        neural_proba1 |-> 0, gradient_proba1 |-> 300, raises |-> FALSE ],
      [ anomaly_score |-> 0, class_type |-> "benign", class_conf |-> 560,
        neural_proba1 |-> 500, gradient_proba1 |-> 500, raises |-> FALSE ],
      [ anomaly_score |-> 0, class_type |-> "benign", class_conf |-> 560,
        neural_proba1 |-> 500, gradient_proba1 |-> 500, raises |-> TRUE ] }

\* every object predict_threat uses has been fitted (an unfitted scaler or
\* estimator raises NotFittedError)
AllFitted ==
    /\ scalers["standard"] # 0
    /\ label_encoders["threat_type"] # 0
    /\ \A m \in MemberSet : models[m] # 0

\* the training cycles that fitted the objects predict_threat computes with
GenerationsInUse ==
    { scalers["standard"], label_encoders["threat_type"] }
    \cup { models[m] : m \in MemberSet }

\* train_models: y_is_threat of a fetched row
binary_label(row) == IF row.status = "blocked" THEN 1 ELSE 0

\* mutant: an event whose scoring raised is left out of processed_count
CountEvent_scored_only(stats, ml_result) ==
    [ processed_count |->
          stats.processed_count + (IF ml_result.error THEN 0 ELSE 1),
      threats_detected |->
          stats.threats_detected + (IF ml_result.is_threat THEN 1 ELSE 0) ]

\* process_security_event: processed_count += 1, and threats_detected += 1
\* when the verdict is a threat
CountEvent(stats, ml_result) ==
    [ processed_count |-> stats.processed_count + 1,
      threats_detected |->
          stats.threats_detected + (IF ml_result.is_threat THEN 1 ELSE 0) ]

\* process_security_event up to its first await: predict_threat, the counters,
\* and the call of store_threat_analysis when risk_score > 50
ScoreEvent ==
    /\ initialized
    /\ scorePc = "idle"
    /\ processing_stats.processed_count < MaxEvents
    /\ \E det \in LoopDetectorOutputs :
          LET ml_result ==
                  predict_threat([ det EXCEPT !.raises = @ \/ ~AllFitted ])
          IN  /\ verdict' = ml_result
              /\ processing_stats' = CountEvent(processing_stats, ml_result)
              /\ scorePc' = IF ml_result.risk_score > StoreRiskCut
                            THEN "store" ELSE "idle"
    /\ scored_with' = GenerationsInUse
    /\ UNCHANGED << liveVars, callVars, request, analysis, engineVars, disk, dbVars, now,
                    initialized, loopPc, trainerPc, trainer_metrics, nextGen,
                    lastCycle, monitorCycles, trainedCycles,
                    batchVars >>

\* mutant: an insert that raises takes the event out of processed_count
StoreThreatAnalysis_uncounted ==
    /\ scorePc = "store"
    /\ \E insert_ok \in BOOLEAN :
          /\ threat_logs' =
                IF insert_ok
                THEN threat_logs (+)
                     Rows(now, IF verdict.is_threat THEN "detected" ELSE "allowed", 1)
                ELSE threat_logs
          /\ processing_stats' =
                IF insert_ok THEN processing_stats
                ELSE [ processing_stats EXCEPT !.processed_count = @ - 1 ]
    /\ scorePc' = "idle"
    /\ UNCHANGED << liveVars, callVars, request, verdict, analysis, engineVars, disk,
                    ai_model_metrics, now, initialized, loopPc,
                    trainerPc, trainer_metrics, nextGen, lastCycle, scored_with,
                    monitorCycles, trainedCycles,
                    batchVars >>

\* store_threat_analysis: the insert into threat_logs is made, or raises and
\* is printed; process_security_event then returns
StoreThreatAnalysis ==
    /\ scorePc = "store"
    /\ \E insert_ok \in BOOLEAN :
          threat_logs' =
              IF insert_ok
              THEN threat_logs (+)
                   Rows(now, IF verdict.is_threat THEN "detected" ELSE "allowed", 1)
              ELSE threat_logs
    /\ scorePc' = "idle"
    /\ UNCHANGED << liveVars, callVars, request, verdict, analysis, engineVars, disk,
                    ai_model_metrics, processing_stats, now, initialized, loopPc,
                    trainerPc, trainer_metrics, nextGen, lastCycle, scored_with,
                    monitorCycles, trainedCycles,
                    batchVars >>

\* `advanced_ml_engine.py train`: a process of its own with a fresh engine
\* calls train_models, which suspends in fetch_training_data
TrainerStart ==
    /\ trainerPc = "idle"
    /\ nextGen <= MaxCycles + 1
    /\ trainerPc' = "fetch"
    /\ trainer_metrics' = NoMetrics
    /\ UNCHANGED << liveVars, callVars, request, verdict, analysis, engineVars, disk, dbVars,
                    processing_stats, now, initialized, loopPc, scorePc, nextGen,
                    lastCycle, scored_with, monitorCycles, trainedCycles,
                    batchVars >>

\* the command's train_models returns False (no rows) or raises: the process
\* ends and its engine is gone
TrainerFails ==
    /\ trainerPc = "fetch"
    /\ trainerPc' = "idle"
    /\ UNCHANGED << liveVars, callVars, request, verdict, analysis, engineVars, disk, dbVars,
                    processing_stats, now, initialized, loopPc, scorePc,
                    trainer_metrics, nextGen, lastCycle, scored_with,
                    monitorCycles, trainedCycles,
                    batchVars >>

\* the command's train_models succeeds and saves its models into models/
TrainerSucceeds ==
    /\ trainerPc = "fetch"
    /\ \E acc \in AccuracyVectors, written \in SaveStops :
          LET done == Len(TrainSteps)
              mm == [ gen |-> nextGen, accuracy |-> acc ]
          IN  /\ trainer_metrics' = mm
              /\ disk' = save_models(disk, written,
                                     TrainedModels(UnfittedModels, nextGen, done),
                                     TrainedScalers(UnfittedScalers, nextGen, done),
                                     TrainedEncoders(UnfittedEncoders, nextGen, done),
                                     mm)
    /\ nextGen' = nextGen + 1
    /\ trainerPc' = "publish"
    /\ UNCHANGED << liveVars, callVars, request, verdict, analysis, engineVars, dbVars,
                    processing_stats, now, initialized, loopPc, scorePc,
                    lastCycle, scored_with, monitorCycles, trainedCycles,
                    batchVars >>

\* the command's update_model_metrics, after which the process ends
TrainerUpdateModelMetrics ==
    /\ trainerPc = "publish"
    /\ \E insert_ok \in BOOLEAN :
          ai_model_metrics' =
              IF insert_ok THEN Append(ai_model_metrics, trainer_metrics.gen)
              ELSE ai_model_metrics
    /\ trainerPc' = "idle"
    /\ UNCHANGED << liveVars, callVars, request, verdict, analysis, engineVars, disk, threat_logs,
                    processing_stats, now, initialized, loopPc, scorePc,
                    trainer_metrics, nextGen, lastCycle, scored_with,
                    monitorCycles, trainedCycles,
                    batchVars >>

\* Spec: the processor process alone: its monitoring loop and its scoring
Next ==
    \/ Initialize
    \/ MonitorMetrics
    \/ CountNewSamples
    \/ TrainNoData
    \/ TrainFails
    \/ TrainSucceeds
    \/ UpdateModelMetrics
    \/ Sleep
    \/ ScoreEvent
    \/ StoreThreatAnalysis

Spec == Init /\ [][Next]_vars

\* SpecDeploy: the monitoring loop of the processor process and the `train`
\* command, two processes over the same database and models/ directory
NextDeploy ==
    \/ Initialize
    \/ MonitorMetrics
    \/ CountNewSamples
    \/ TrainNoData
    \/ TrainFails
    \/ TrainSucceeds
    \/ UpdateModelMetrics
    \/ Sleep
    \/ TrainerStart
    \/ TrainerFails
    \/ TrainerSucceeds
    \/ TrainerUpdateModelMetrics

SpecDeploy == Init /\ [][NextDeploy]_vars

----------------------------------------------------------------------------
(* SpecBatch: one call of process_batch_events on a drawn list of events *)

MaxBatch == 3

\* an element of the list is a mapping, scored as one of LoopDetectorOutputs,
\* or an object without .get (None, a string, a number)
EventShapes ==
    { [ mapping |-> TRUE, det |-> d ] : d \in LoopDetectorOutputs }
    \cup { [ mapping |-> FALSE, det |-> Null ] }

\* the lists of at most MaxBatch events; id is the position in the list, which
\* for a mapping is also the value of its 'id' key
Batches ==
    UNION { { [ i \in 1 .. n |-> [ id |-> i, mapping |-> f[i].mapping,
                                   det |-> f[i].det ] ] :
                f \in [ 1 .. n -> EventShapes ] } : n \in 0 .. MaxBatch }

\* one coroutine per event, none started
NewTasks(events) ==
    [ i \in 1 .. Len(events) |-> [ state |-> "pending", result |-> Null ] ]

\* an initialized processor whose engine loaded a saved generation
InitBatch ==
    /\ request = Null
    /\ verdict = Null
    /\ analysis = Null
    /\ detection = Null
    /\ features = << >>
    /\ disk = SavedGeneration([ m \in ScoredMembers |-> 90 ])
    /\ models = LoadedModels(disk, UnfittedModels)
    /\ scalers = LoadedScalers(disk, UnfittedScalers)
    /\ label_encoders = LoadedEncoders(disk, UnfittedEncoders)
    /\ model_metrics = LoadedMetrics(disk, NoMetrics)
    /\ threat_logs = EmptyBag
    /\ ai_model_metrics = << >>
    /\ processing_stats = [ processed_count |-> 0, threats_detected |-> 0 ]
    /\ now = 0
    /\ initialized = TRUE
    /\ loopPc = "metrics"
    /\ scorePc = "idle"
    /\ trainerPc = "idle"
    /\ trainer_metrics = NoMetrics
    /\ nextGen = 2
    /\ lastCycle = NoCycle
    /\ scored_with = NotScored
    /\ monitorCycles = 0
    /\ trainedCycles = 0
    /\ batch \in Batches
    /\ tasks = NewTasks(batch)
    /\ returned = NotReturned
    /\ LiveEngineNew

\* gather starts the coroutines in list order; each runs to its first await.
\* A mapping is scored and counted, and suspends in store_threat_analysis when
\* risk_score > 50.  On an object without .get the first event_data.get raises
\* inside the try, and the handler's own event_data.get('id') raises again, so
\* the coroutine ends with the exception
TaskRun ==
    \E i \in 1 .. Len(tasks) :
        /\ tasks[i].state = "pending"
        /\ \A j \in 1 .. i - 1 : tasks[j].state # "pending"
        /\ IF batch[i].mapping
           THEN LET ml_result ==
                        predict_threat([ batch[i].det EXCEPT
                                             !.raises = @ \/ ~AllFitted ])
                    analysis_result ==
                        [ event_id |-> batch[i].id, ml_analysis |-> ml_result ]
                IN  /\ verdict' = ml_result
                    /\ scored_with' = GenerationsInUse
                    /\ processing_stats' = CountEvent(processing_stats, ml_result)
                    /\ tasks' =
                          [ tasks EXCEPT
                              ![i] = [ state |-> IF ml_result.risk_score > StoreRiskCut
                                                 THEN "storing" ELSE "returned",
                                       result |-> analysis_result ] ]
           ELSE /\ tasks' = [ tasks EXCEPT ![i] = [ state |-> "raised",
                                                     result |-> Null ] ]
                /\ UNCHANGED << verdict, scored_with, processing_stats >>
        /\ UNCHANGED << liveVars, callVars, request, analysis, engineVars, disk, dbVars, now,
                        initialized, loopPc, scorePc, trainerPc, trainer_metrics,
                        nextGen, lastCycle, monitorCycles, trainedCycles, batch,
                        returned >>

\* store_threat_analysis of a suspended coroutine: the insert is made, or raises
\* and is printed; the coroutine then returns analysis_result
TaskStore ==
    \E i \in 1 .. Len(tasks) :
        /\ tasks[i].state = "storing"
        /\ \E insert_ok \in BOOLEAN :
              threat_logs' =
                  IF insert_ok
                  THEN threat_logs (+)
                       Rows(now, IF tasks[i].result.ml_analysis.is_threat
                                 THEN "detected" ELSE "allowed", 1)
                  ELSE threat_logs
        /\ tasks' = [ tasks EXCEPT ![i].state = "returned" ]
        /\ UNCHANGED << liveVars, callVars, request, verdict, analysis, engineVars, disk,
                        ai_model_metrics, processing_stats, now, initialized,
                        loopPc, scorePc, trainerPc, trainer_metrics, nextGen,
                        lastCycle, scored_with, monitorCycles, trainedCycles,
                        batch, returned >>

\* the loop over the gathered results: those that are exceptions are printed,
\* the others appended
valid_results(results) ==
    LET kept == SelectSeq(results, LAMBDA t : t.state # "raised")
    IN  [ k \in 1 .. Len(kept) |-> kept[k].result ]

\* gather has every result and process_batch_events returns valid_results
BatchReturn ==
    /\ ~returned.done
    /\ \A i \in 1 .. Len(tasks) : tasks[i].state \in { "returned", "raised" }
    /\ returned' = [ done |-> TRUE, valid_results |-> valid_results(tasks) ]
    /\ UNCHANGED << liveVars, callVars, request, verdict, analysis, engineVars, disk, dbVars,
                    processing_stats, now, initialized, loopPc, scorePc,
                    trainerPc, trainer_metrics, nextGen, lastCycle, scored_with,
                    monitorCycles, trainedCycles, batch, tasks >>

NextBatch ==
    \/ TaskRun
    \/ TaskStore
    \/ BatchReturn

SpecBatch == InitBatch /\ [][NextBatch]_vars

----------------------------------------------------------------------------
(* SpecLive: a LiveMonitoringEngine whose start_monitoring has created the
   monitor tasks and process_alerts on one event loop.  Each task runs alone
   from one await to the next: the body of a loop iteration, up to its
   asyncio.sleep, is one action.  broadcast_to_clients and metrics_buffer
   touch neither alert_queue nor is_running and are left out *)

MaxAlerts == 5          \* alerts put over a run

\* monitor_security_events: for _ in range(random.randint(0, 5))
MaxScanEvents == 5

EventSeverities == { "LOW", "MEDIUM", "HIGH", "CRITICAL" }

\* alert_queue.put of one alert per severity, in order; an alert is numbered
\* by its put
PutAlerts(severities) ==
    /\ put_count + Len(severities) <= MaxAlerts
    /\ alert_queue' =
          alert_queue \o [ k \in 1 .. Len(severities) |->
                             [ id |-> put_count + k, severity |-> severities[k] ] ]
    /\ put_count' = put_count + Len(severities)

\* monitor_network_traffic and monitor_system_resources: a HIGH alert when
\* the first reading is over its limit, then a MEDIUM alert when the second is
TwoCheckAlerts ==
    { << >>, << "HIGH" >>, << "MEDIUM" >>, << "HIGH", "MEDIUM" >> }

\* monitor_security_events: up to 5 events of any severity, an alert for each
\* HIGH or CRITICAL one, in event order
SecurityScanAlerts ==
    { SelectSeq(events, LAMBDA sev : sev \in { "HIGH", "CRITICAL" }) :
        events \in UNION { [ 1 .. n -> EventSeverities ] : n \in 0 .. MaxScanEvents } }

\* start_monitoring
StartMonitoring ==
    /\ live_tasks = "none"
    /\ is_running' = TRUE
    /\ live_tasks' = "created"
    /\ UNCHANGED << alert_queue, put_count, dispatched, callVars, request, verdict,
                    analysis, retrainVars >>

MonitorNetworkTraffic ==
    /\ live_tasks = "created"
    /\ is_running
    /\ \E severities \in TwoCheckAlerts : PutAlerts(severities)
    /\ UNCHANGED << is_running, live_tasks, dispatched, callVars, request, verdict,
                    analysis, retrainVars >>

MonitorSystemResources ==
    /\ live_tasks = "created"
    /\ is_running
    /\ \E severities \in TwoCheckAlerts : PutAlerts(severities)
    /\ UNCHANGED << is_running, live_tasks, dispatched, callVars, request, verdict,
                    analysis, retrainVars >>

MonitorSecurityEvents ==
    /\ live_tasks = "created"
    /\ is_running
    /\ \E severities \in SecurityScanAlerts : PutAlerts(severities)
    /\ UNCHANGED << is_running, live_tasks, dispatched, callVars, request, verdict,
                    analysis, retrainVars >>

\* mutant: a HIGH alert is handled as a standard one
alert_handler_no_high(alert) ==
    IF alert.severity = "CRITICAL" THEN "handle_critical_alert"
    ELSE "handle_standard_alert"

\* process_alerts: the handler chosen for an alert
alert_handler(alert) ==
    IF alert.severity = "CRITICAL" THEN "handle_critical_alert"
    ELSE IF alert.severity = "HIGH" THEN "handle_high_alert"
    ELSE "handle_standard_alert"

\* process_alerts, an iteration that finds the queue not empty: get() takes
\* the oldest alert and the handler for its severity is awaited; an exception
\* of the handler is caught and printed.  An iteration that finds the queue
\* empty changes nothing
ProcessAlerts ==
    /\ live_tasks = "created"
    /\ is_running
    /\ alert_queue # << >>
    /\ LET alert == Head(alert_queue)
       IN  /\ alert_queue' = Tail(alert_queue)
           /\ dispatched' =
                 Append(dispatched,
                        [ alert |-> alert, handler |-> alert_handler(alert) ])
    /\ UNCHANGED << is_running, live_tasks, put_count, callVars, request, verdict,
                    analysis, retrainVars >>

\* stop_monitoring: every loop ends at its next `while self.is_running`
StopMonitoring ==
    /\ live_tasks = "created"
    /\ is_running
    /\ is_running' = FALSE
    /\ UNCHANGED << alert_queue, live_tasks, put_count, dispatched, callVars,
                    request, verdict, analysis, retrainVars >>

InitLive ==
    /\ request = Null
    /\ verdict = Null
    /\ analysis = Null
    /\ detection = Null
    /\ features = << >>
    /\ InitRetrainIdle

NextLive ==
    \/ StartMonitoring
    \/ MonitorNetworkTraffic
    \/ MonitorSystemResources
    \/ MonitorSecurityEvents
    \/ ProcessAlerts
    \/ StopMonitoring

SpecLive == InitLive /\ [][NextLive]_vars

\* the event loop resumes process_alerts after each asyncio.sleep(1) for as
\* long as the engine runs
FairSpecLive == SpecLive /\ WF_vars(ProcessAlerts)

----------------------------------------------------------------------------
(* SpecScore: one call of a scoring function on a drawn input *)

InitScore ==
    /\ request \in PredictRequests \cup AnalyzeRequests \cup DetectRequests
                   \cup ExtractRequests
    /\ verdict = Null
    /\ analysis = Null
    /\ detection = Null
    /\ features = << >>
    /\ InitRetrainIdle

PredictThreat ==
    /\ request.op = "predict_threat"
    /\ verdict = Null
    /\ verdict' = predict_threat(request.det)
    /\ UNCHANGED << liveVars, callVars, request, analysis, retrainVars >>

AnalyzeThreat ==
    /\ request.op = "analyze_threat"
    /\ analysis = Null
    /\ analysis' = analyze_threat(request)
    /\ UNCHANGED << liveVars, callVars, request, verdict, retrainVars >>

DetectPatternThreats ==
    /\ request.op = "detect_pattern_threats"
    /\ detection = Null
    /\ detection' = detect_pattern_threats(request.matched)
    /\ UNCHANGED << liveVars, features, request, verdict, analysis, retrainVars >>

\* two calls of extract_advanced_features on the same event, each at the
\* hour the clock shows then
ExtractAdvancedFeatures ==
    /\ request.op = "extract_advanced_features"
    /\ Len(features) < 2
    /\ \E current_hour \in ClockHours :
          features' =
              Append(features, extract_advanced_features(request.data, current_hour))
    /\ UNCHANGED << liveVars, detection, request, verdict, analysis, retrainVars >>

NextScore ==
    \/ PredictThreat
    \/ AnalyzeThreat
    \/ DetectPatternThreats
    \/ ExtractAdvancedFeatures

SpecScore == InitScore /\ [][NextScore]_vars

----------------------------------------------------------------------------
(* Properties of the scoring functions, checked under SpecScore *)

Scored == verdict # Null /\ ~verdict.error
Analyzed == analysis # Null

\* the votes of the three voting models, from what the models returned
ModelVotes(det) ==
    (IF det.anomaly_score < 0 THEN 1 ELSE 0)
    + (IF 2 * det.neural_proba1 > ConfScale THEN 1 ELSE 0)
    + (IF 2 * det.gradient_proba1 > ConfScale THEN 1 ELSE 0)

\* the pattern matcher's best-category confidence for a payload (0: no match)
PatternBestConfidence(matched) ==
    LET r == detect_pattern_threats(matched)
    IN  IF r.threats = {} THEN 0
        ELSE r.confidence_scores[Categories[BestCategoryIndex(r.confidence_scores)]]

\* C1: on predict_threat's success path is_threat is true exactly when
\* vote_count >= 2 or risk_score > 70 (so risk 70 with fewer than 2 votes is
\* no threat)
C1_IsThreatRule ==
    Scored =>
        (verdict.is_threat <=>
            (verdict.ensemble_votes >= 2 \/ verdict.risk_score > 70))

C1_Witness ==
    /\ Scored
    /\ verdict.risk_score = 70
    /\ verdict.ensemble_votes < 2
    /\ ~verdict.is_threat

SeverityLadder(risk_score) ==
    IF risk_score >= 90 THEN "critical"
    ELSE IF risk_score >= 70 THEN "high"
    ELSE IF risk_score >= 40 THEN "medium"
    ELSE "low"

\* C2: in every verdict of predict_threat and of analyze_threat the severity
\* is the one the thresholds 90 / 70 / 40 give for its risk_score, boundary
\* values belonging to the higher tier
C2_SeverityLadder ==
    /\ verdict # Null => verdict.severity = SeverityLadder(verdict.risk_score)
    /\ Analyzed => analysis.severity = SeverityLadder(analysis.risk_score)

C2_Witness ==
    /\ Scored
    /\ verdict.risk_score = 90
    /\ verdict.severity = "critical"

\* C3: the risk_score of every verdict is an integer in [0,100], on the success
\* and on the error path of predict_threat and of analyze_threat, whose score
\* is calculate_risk_score's
C3_RiskScoreRange ==
    /\ verdict # Null => verdict.risk_score \in 0 .. 100
    /\ Analyzed => analysis.risk_score \in 0 .. 100

C3_Witness ==
    /\ Scored
    /\ verdict.risk_score = 100

ModelConfidenceSum(det) ==
    (IF det.anomaly_score < 0 THEN -det.anomaly_score ELSE det.anomaly_score)
    + det.class_conf
    + (IF 2 * det.neural_proba1 > ConfScale
       THEN det.neural_proba1 ELSE ConfScale - det.neural_proba1)
    + (IF 2 * det.gradient_proba1 > ConfScale
       THEN det.gradient_proba1 ELSE ConfScale - det.gradient_proba1)

C12_RiskScoreRounded ==
    Scored =>
        2 * Abs(4 * ConfScale * verdict.risk_score
                - Percent * ModelConfidenceSum(request.det)) <= 4 * ConfScale

\* the labels the classifier members predict: the threat classifier its class,
\* a binary classifier "threat" or "benign"
MemberLabels(det) ==
    { [ label |-> det.class_type, confidence |-> det.class_conf ],
      [ label |-> IF 2 * det.neural_proba1 > ConfScale THEN "threat" ELSE "benign",
        confidence |-> IF 2 * det.neural_proba1 > ConfScale
                       THEN det.neural_proba1 ELSE ConfScale - det.neural_proba1 ],
      [ label |-> IF 2 * det.gradient_proba1 > ConfScale THEN "threat" ELSE "benign",
        confidence |-> IF 2 * det.gradient_proba1 > ConfScale
                       THEN det.gradient_proba1
                       ELSE ConfScale - det.gradient_proba1 ] }

\* the labels of the most confident members among those predicting non-benign,
\* "benign" when there is none
MostConfidentThreatLabels(det) ==
    LET threats == { l \in MemberLabels(det) : l.label # "benign" }
    IN  IF threats = {} THEN { "benign" }
        ELSE { l.label : l \in { k \in threats :
                                   \A j \in threats : j.confidence <= k.confidence } }

\* C13 as claimed: threat_type is the label of the classifier member with the
\* highest confidence among the members predicting a non-benign label, and
\* "benign" when no member predicts one
C13_TypeOfMostConfidentMember ==
    Scored => verdict.threat_type \in MostConfidentThreatLabels(request.det)

\* C13 as amended: threat_type is the label the threat classifier predicts for
\* the event, "benign" included, whatever the binary classifiers predict and
\* however confident they are
C13_TypeOfThreatClassifier ==
    Scored => verdict.threat_type = request.det.class_type

C13_Witness ==
    /\ Scored
    /\ verdict.threat_type = "benign"
    /\ verdict.is_threat
    /\ 2 * request.det.neural_proba1 > ConfScale


\* C14: detect_pattern_threats reports a category exactly when at least one
\* of its rules matches, and the confidence of a category with n matched rules
\* is min(0.2 * n, 1.0)
C14_PatternConfidence ==
    detection # Null =>
        /\ \A c \in CategorySet :
              c \in detection.threats <=> request.matched[c] >= 1
        /\ DOMAIN detection.confidence_scores = detection.threats
        /\ \A c \in detection.threats :
              IF request.matched[c] >= 5
              THEN detection.confidence_scores[c] = ConfScale
              ELSE 5 * detection.confidence_scores[c]
                       = request.matched[c] * ConfScale

C14_Witness ==
    /\ detection # Null
    /\ request.matched["sql_injection"] = 6
    /\ detection.confidence_scores["sql_injection"] = ConfScale
    /\ request.matched["xss"] = 3
    /\ "ldap_injection" \notin detection.threats

\* the analysis is the success answer of analyze_threat for a payload that
\* matched some rule
PatternAnalyzed ==
    /\ Analyzed
    /\ analysis.analysis_method = "pattern_matching"

\* the confidence min(0.2 * n, 1.0) of a category with n matched rules
CappedConfidence(n) == IF n >= 5 THEN ConfScale ELSE (n * ConfScale) \div 5

\* the place of a category in the declaration order
DeclaredAt(c) == CHOOSE i \in 1 .. Len(Categories) : Categories[i] = c

\* C15: when several categories match, classify_threat_type selects a category
\* of highest confidence, and among those the one declared first
C15_FirstDeclaredWins ==
    PatternAnalyzed =>
        LET t == analysis.threat_type
        IN  /\ request.matched[t] >= 1
            /\ \A c \in CategorySet :
                  /\ CappedConfidence(request.matched[c])
                         <= CappedConfidence(request.matched[t])
                  /\ (request.matched[c] >= 1 /\ DeclaredAt(c) < DeclaredAt(t))
                        => CappedConfidence(request.matched[c])
                               < CappedConfidence(request.matched[t])

C15_Witness ==
    /\ PatternAnalyzed
    /\ request.matched["xss"] = 5
    /\ request.matched["path_traversal"] = 6
    /\ analysis.threat_type = "xss"

\* extract_advanced_features has returned for an event with an empty payload
EmptyPayloadExtracted ==
    /\ Len(features) >= 1
    /\ request.data.payload = ""

\* the character ratios and the payload's keyword scores of a vector are 0
PayloadFeaturesZero(f) ==
    /\ DOMAIN f.char_ratios = 1 .. 14
    /\ \A i \in 1 .. 14 : f.char_ratios[i] = 0
    /\ f.sql_score = 0
    /\ f.xss_score = 0
    /\ f.cmd_score = 0
    /\ f.path_score = 0
    /\ f.encoding_score = 0

\* C16 as claimed: for an empty payload, whatever the other fields, the 14
\* character ratios and every keyword score, the suspicious-user-agent score
\* included, are 0
C16_EmptyPayloadAllZero ==
    EmptyPayloadExtracted =>
        \A k \in 1 .. Len(features) :
            PayloadFeaturesZero(features[k]) /\ features[k].ua_score = 0

\* C16 as amended: for an empty payload, whatever the other fields, the 14
\* character ratios and the keyword scores computed from the payload (SQL, XSS,
\* command injection, path traversal, encoding) are 0, with no division by
\* zero; the suspicious-user-agent score depends on the user agent alone
C16_EmptyPayloadZero ==
    EmptyPayloadExtracted =>
        \A k \in 1 .. Len(features) : PayloadFeaturesZero(features[k])

C16_Witness ==
    /\ EmptyPayloadExtracted
    /\ request.data.user_agent = "sqlmap/1.0"
    /\ request.data.source_ip = "192.168.1.100"
    /\ features[1].ua_score = 1
    /\ PayloadFeaturesZero(features[1])

\* C17: two calls of extract_advanced_features on the same event return
\* identical vectors, at whatever times the calls are made
C17_ExtractionDeterministic ==
    Len(features) = 2 => features[1] = features[2]

\* C22: for the payload "' OR '1'='1' --", whatever the source IP and the
\* hour, analyze_threat reports a threat of severity high or critical
C22_SqlPayloadIsHighThreat ==
    ( /\ Analyzed
      /\ request.matched = SqlTestMatched
      /\ request.source_ip # "None" )
        => ( /\ analysis.threat_detected
             /\ analysis.severity \in { "high", "critical" } )

\* C25: the risk score analyze_threat computes for a request from an internal
\* source IP (192.168.*, 10.*) is never higher than the score it computes for
\* the same request, at the same hour, from any other source IP
C25_InternalNeverHigher ==
    (Analyzed /\ IsInternalIp(request.source_ip))
        => \A ip \in SourceIps \ { "None" } :
              IsInternalIp(ip)
              \/ analysis.risk_score
                    <= analyze_threat([ request EXCEPT !.source_ip = ip ]).risk_score

\* C27: whenever analyze_threat says should_block, it says threat_detected
C27_BlockImpliesThreat ==
    Analyzed => (analysis.should_block => analysis.threat_detected)

\* C18: when a member fails during scoring, the verdict is still computed from
\* the remaining detectors: an event that all three voting models call a threat
\* keeps at least two votes and the confidences behind them whichever member
\* failed, so its verdict is a threat with a risk score above 0
C18_FailureKeepsVerdict ==
    (verdict # Null /\ request.det.raises /\ ModelVotes(request.det) = 3)
        => (verdict.is_threat /\ verdict.risk_score > 0)

----------------------------------------------------------------------------
(* Properties of alert processing, checked under FairSpecLive *)

\* C30: the alerts process_alerts takes are the alerts put, each once and in
\* the order of their put (the k-th dispatched is the k-th put, and the queue
\* holds the following ones in order), each is given to the handler of its
\* severity, and while the engine keeps running every alert put is
\* eventually dispatched
C30_AlertsDispatched ==
    /\ [](\A k \in 1 .. Len(dispatched) :
              /\ dispatched[k].alert.id = k
              /\ dispatched[k].handler =
                    (CASE dispatched[k].alert.severity = "CRITICAL"
                            -> "handle_critical_alert"
                       [] dispatched[k].alert.severity = "HIGH"
                            -> "handle_high_alert"
                       [] OTHER -> "handle_standard_alert"))
    /\ [](\A k \in 1 .. Len(alert_queue) :
              alert_queue[k].id = Len(dispatched) + k)
    /\ \A id \in 1 .. MaxAlerts :
          (put_count >= id) ~> (Len(dispatched) >= id \/ ~is_running)

\* alerts of the three kinds were dispatched, each to its handler, while
\* further alerts wait in the queue of the running engine
C30_Witness ==
    /\ is_running
    /\ alert_queue # << >>
    /\ { dispatched[k].handler : k \in 1 .. Len(dispatched) }
          = { "handle_critical_alert", "handle_high_alert",
              "handle_standard_alert" }

----------------------------------------------------------------------------
(* Properties of batch processing, checked under SpecBatch *)

\* the coroutines of the batch whose predict_threat returned a verdict
ScoredTasks == { i \in 1 .. Len(tasks) : tasks[i].result # Null }

\* C26: at every point of a batch, interleavings of the gathered coroutines
\* included, 0 <= threats_detected <= processed_count, processed_count is the
\* number of events whose scoring returned a verdict, and threats_detected
\* the number of those verdicts that are threats
C26_CountersExact ==
    /\ 0 <= processing_stats.threats_detected
    /\ processing_stats.threats_detected <= processing_stats.processed_count
    /\ processing_stats.processed_count = Cardinality(ScoredTasks)
    /\ processing_stats.threats_detected =
          Cardinality({ i \in ScoredTasks : tasks[i].result.ml_analysis.is_threat })

\* three events gathered: one raised, one is suspended in the sink while the
\* next was scored and counted, one of them a threat
C26_Witness ==
    /\ Len(batch) = 3
    /\ \E i \in 1 .. 3 : tasks[i].state = "raised"
    /\ \E i \in 1 .. 3 : tasks[i].state = "storing"
    /\ \A i \in 1 .. 3 : tasks[i].state # "pending"
    /\ processing_stats.processed_count = 2
    /\ processing_stats.threats_detected = 1

\* C4 (as stated): process_batch_events returns a list as long as its input
\* whose i-th element is the result for the i-th input event
C4_BatchAligned ==
    returned.done =>
        /\ Len(returned.valid_results) = Len(batch)
        /\ \A i \in 1 .. Len(batch) :
              returned.valid_results[i].event_id = batch[i].id

----------------------------------------------------------------------------
(* Properties of the retraining protocol, checked under Spec and SpecDeploy *)

\* the objects predict_threat computes with are those in use when the
\* processor's last train_models call started
EngineAsBeforeCycle ==
    /\ models = lastCycle.models
    /\ scalers = lastCycle.scalers
    /\ label_encoders = lastCycle.label_encoders

\* the last cycle measured, for some member, a lower validation accuracy than
\* the generation that was active when it started
CycleRegressed ==
    /\ lastCycle.model_metrics.gen # 0
    /\ \E m \in ScoredMembers :
          lastCycle.measured[m] < lastCycle.model_metrics.accuracy[m]

\* C5: a retrain cycle that measured a lower validation accuracy for some
\* member than the active generation's does not make its models the ones in
\* use: the prior generation stays active
C5_NoRegressionPromoted ==
    (lastCycle.outcome \in { "ok", "save_failed" } /\ CycleRegressed)
        => EngineAsBeforeCycle

\* C6: after a retrain cycle that failed at some step, the scaler, the label
\* encoders and every member predict_threat uses are those in use before the
\* cycle started, and the loop is no longer inside train_models
C6_FailedCycleLeavesEngine ==
    lastCycle.outcome \in { "failed", "save_failed" }
        => (EngineAsBeforeCycle /\ loopPc # "fetch")

\* C7: every verdict predict_threat computes is computed from a scaler, label
\* encoder and members that all belong to one generation
C7_SingleGeneration ==
    (verdict # Null /\ ~verdict.error) => Cardinality(scored_with) = 1

\* the generations of the objects and metrics the engine holds
LoadedGenerations ==
    GenerationsInUse \cup { model_metrics.gen }

\* C19: whatever runs of save_models came before, one of them stopped part-way
\* included, the models, scaler, label encoders and metrics load_models has
\* loaded all come from one generation
C19_LoadIsOneGeneration ==
    (initialized /\ lastCycle = NoCycle)
        => Cardinality(LoadedGenerations \ { 0 }) <= 1

\* C20: two successive verdicts computed by different generations of the model
\* bundle record different generations
C20_GenerationRecorded ==
    [][ ( /\ verdict # Null /\ ~verdict.error
          /\ verdict' # Null /\ ~verdict'.error
          /\ Cardinality(scored_with) = 1
          /\ Cardinality(scored_with') = 1
          /\ scored_with' # scored_with )
        => verdict'.model_version # verdict.model_version ]_vars

\* the generations of the member files models/ holds
StoredGenerations ==
    { disk[m \o ".pkl"] : m \in { n \in MemberSet : (n \o ".pkl") \in DOMAIN disk } }

\* C21: after a retrain cycle that trained and saved a new generation, the
\* members of the generation in use before the cycle are still stored in
\* models/
C21_PreviousGenerationRetained ==
    (lastCycle.outcome = "ok" /\ lastCycle.model_metrics.gen # 0)
        => lastCycle.model_metrics.gen \in StoredGenerations

\* C23: process_security_event calls store_threat_analysis exactly when the
\* verdict's risk_score is above 50, whatever is_threat is; a row is inserted
\* only by that call, and the call, whether its insert is made or raises,
\* leaves the verdict and the processing counters as they were
C23_SinkAboveFifty ==
    [][ /\ processing_stats' # processing_stats =>
              (scorePc' = "store" <=> verdict'.risk_score > StoreRiskCut)
        /\ threat_logs' # threat_logs =>
              (scorePc = "store" /\ verdict.risk_score > StoreRiskCut)
        /\ (scorePc = "store" /\ scorePc' = "idle") =>
              (verdict' = verdict /\ processing_stats' = processing_stats) ]_vars

\* an event that is no threat but scored above 50 went to the sink, whose
\* insert raised: no row of the event is stored and the event is counted
C23_Witness ==
    /\ scorePc = "idle"
    /\ verdict # Null
    /\ verdict.risk_score > StoreRiskCut
    /\ ~verdict.is_threat
    /\ processing_stats.processed_count = 1
    /\ \A r \in BagToSet(threat_logs) : r.created_at < 0

\* C24: the continuous-learning check is entered once every 30 minutes, in
\* every 30th iteration of the 60-second loop and in no iteration between
C24_CheckEveryThirtyMinutes ==
    loopPc = "count" => now % (30 * SleepInterval) = 0

\* C28: a row process_security_event stored for a verdict with is_threat true
\* (status 'detected') gets the training label 1 from train_models, and a row
\* stored for a verdict with is_threat false (status 'allowed') gets 0
C28_LabelsKeepVerdict ==
    \A r \in BagToSet(threat_logs) :
        r.status \in { "detected", "allowed" }
            => (binary_label(r) = 1 <=> r.status = "detected")

\* C29: the monitoring loop inserts a model-metrics record only after a
\* train_models call that succeeded: no more records than successful cycles
C29_MetricsOnlyAfterSuccess ==
    Len(ai_model_metrics) <= trainedCycles

\* C8: at most one retrain cycle (train_models, from its fetch to its save) is
\* in progress at any time
C8_OneCycleAtATime ==
    ~(loopPc = "fetch" /\ trainerPc = "fetch")

\* C9: the trigger counts only rows that arrived since the last training, so
\* every cycle the loop starts has more than 100 rows of its own: the 120 rows
\* of one burst start one cycle, however many checks follow
C9_OneCyclePerBurst ==
    trainedCycles * (RetrainThreshold + 1) <= BagCardinality(threat_logs)

====
